---------------------------- MODULE Spec2Model ----------------------------
(***************************************************************************)
(* Model of src/rss_bot.py: the poll loop fetch_and_post, the dedup ledger *)
(* processed_articles, the content resolver fetch_full_article_content and *)
(* the delivery function post_to_telegram.                                 *)
(*                                                                         *)
(* Four specifications are given.                                          *)
(*   Spec        the program as written.  The call at line 226,            *)
(*               summarize_content(full_content), omits the required       *)
(*               parameter max_length (line 136), so it raises TypeError   *)
(*               every time it is reached; the handler at line 239 catches *)
(*               it and abandons the feed.  Under Spec no article is ever  *)
(*               prepared and post_to_telegram is never called.            *)
(*   SpecDeliver every behaviour of Spec, and in addition the behaviours   *)
(*               in which the call at line 226 returns a summary (what     *)
(*               summarize_content, lines 136-143, does when it is given   *)
(*               both arguments).  It is a superset of Spec, used to       *)
(*               exercise lines 229-238 and post_to_telegram.              *)
(*   SpecForever SpecDeliver with the cycle counter stopped at MaxCycles   *)
(*               instead of the loop, and weak fairness on the steps of    *)
(*               the coroutine; used for the liveness of the poll loop.    *)
(*   SpecCaption one call of post_to_telegram, with the title and the      *)
(*               summary of the article drawn from sets of texts; used for *)
(*               truncate_to_sentence and the caption.  The poll-loop      *)
(*               specifications carry one short title and summary.         *)
(*                                                                         *)
(* Time advances only in the asyncio.sleep calls of the source (lines 178, *)
(* 238, 244), by the amount slept.  It is kept as the seconds elapsed      *)
(* since the latest send attempt, the latest terminal outcome and the      *)
(* latest audible delivery; an age stops growing at Horizon, one idle      *)
(* period, which is longer than every duration the properties compare.     *)
(***************************************************************************)
EXTENDS Integers, Sequences, FiniteSets, TLC

\* ---------------------------------------------------------------- bounds
MaxCycles == 2       \* poll cycles explored
NumFeeds == 2        \* length of the configured feed list
MaxEntries == 2      \* entries one parsed feed lists
MaxRetryAfter == 2   \* largest retry-after (seconds) the sink answers
MaxWords == 3        \* words of the short summaries explored
LongWords == 200     \* words of the long summary explored
WordLen == 6         \* characters of each word of the long summary
ShortTitle == 10     \* characters of the short title explored

\* ------------------------------------------------------ program constants
CHECK_INTERVAL == 600
POST_DELAY == 5
MAX_RETRIES == 5

\* The feed list (line 28).  The source configures one URL; the loop at
\* line 193 is written for any list, and NumFeeds sets its length here.
RSS_FEEDS == [i \in 1..NumFeeds |-> i]

\* ------------------------------------------------------------ feed entries
NoId == "none"       \* the entry has no "id" key

\* The entries a feed may list: id (or none) and link.
Entries ==
  { [id |-> "a",  link |-> "u1"],
    [id |-> NoId, link |-> "u1"] }

\* guid = entry.get("id", entry.link)   (line 209)
guid_of(entry) == IF entry.id # NoId THEN entry.id ELSE entry.link

Guids == { guid_of(e) : e \in Entries }

\* What feedparser.parse may return as feed.entries: any listing of at most
\* MaxEntries entries.
Listings == UNION { [1..n -> Entries] : n \in 0..MaxEntries }

\* ------------------------------------------------------- content resolver
\* What one extraction strategy does for a link: it raises, or it returns a
\* body text (possibly empty) and an image (possibly none).
ExtractorResults ==
  [raises : {TRUE}, text : {""}, image : {""}] \cup
  [raises : {FALSE}, text : {"", "body"}, image : {"", "img"}]

\* Mutant of fetch_full_article_content: the fallback also runs when the
\* primary returns empty text.
fetch_full_article_content_on_empty(primary, fallback) ==
  IF ~primary.raises /\ primary.text # ""
    THEN [full_content |-> primary.text, media_url |-> primary.image,
          fallback_tried |-> FALSE]
    ELSE IF ~fallback.raises
      THEN [full_content |-> fallback.text, media_url |-> fallback.image,
            fallback_tried |-> TRUE]
      ELSE [full_content |-> "", media_url |-> "", fallback_tried |-> TRUE]

\* fetch_full_article_content (lines 52-77): newspaper3k first; the
\* BeautifulSoup fallback runs only when the primary RAISES (the except at
\* line 61), not when it returns empty text; both failing gives ("", "").
\* fallback_tried tells whether the request of line 65 was made.
fetch_full_article_content(primary, fallback) ==
  IF ~primary.raises
    THEN [full_content |-> primary.text, media_url |-> primary.image,
          fallback_tried |-> FALSE]
    ELSE IF ~fallback.raises
      THEN [full_content |-> fallback.text, media_url |-> fallback.image,
            fallback_tried |-> TRUE]
      ELSE [full_content |-> "", media_url |-> "", fallback_tried |-> TRUE]

\* ------------------------------------------------------------ caption text
\* A text is kept as the sequence of its whitespace-separated words, what
\* content.split() returns (line 82); " ".join puts one space between two
\* words (line 85).  A word is a sequence of characters, "x" standing for
\* any character that is neither a period nor special to Markdown, "." for
\* a period, wherever in the word it is.
Max(S) == CHOOSE n \in S : \A m \in S : m <= n

\* words[:k]   (line 85; a negative k counts from the end of the list)
slice(words, k) ==
  IF k >= 0
    THEN SubSeq(words, 1, IF k < Len(words) THEN k ELSE Len(words))
    ELSE SubSeq(words, 1, IF Len(words) + k > 0 THEN Len(words) + k ELSE 0)

\* The positions of the periods of one word.
dots(w) == { j \in 1..Len(w) : w[j] = "." }

\* truncate_to_sentence (lines 80-89).  truncated.rfind(".") finds the last
\* period of the joined words, which lies in the last word that has one;
\* truncated[:last_period_index + 1] keeps the words before it and that word
\* up to its last period.
truncate_to_sentence(content, max_words) ==
  IF Len(content) <= max_words
    THEN content
    ELSE LET truncated == slice(content, max_words)
             withDot == { i \in 1..Len(truncated) : dots(truncated[i]) # {} }
         IN  IF withDot # {}
               THEN LET i == Max(withDot)
                        w == truncated[i]
                    IN  Append(SubSeq(truncated, 1, i - 1),
                               SubSeq(w, 1, Max(dots(w))))
               ELSE truncated

\* The characters of the words of a text (word, position in the word).
chars(text) ==
  UNION { { << i, j >> : j \in 1..Len(text[i]) } : i \in 1..Len(text) }

\* len() of the string of a text: its characters and the spaces between its
\* words.
str_len(text) ==
  IF text = << >> THEN 0 ELSE Cardinality(chars(text)) + Len(text) - 1

\* The characters of a text that escape_markdown(version=2) puts a backslash
\* before; of the two characters of a word only the period is one.
specials(text) ==
  UNION { { << i, j >> : j \in dots(text[i]) } : i \in 1..Len(text) }

\* len(escape_markdown(text, version=2))   (lines 155-157)
escaped_len(text) == str_len(text) + Cardinality(specials(text))

\* Line 150: the caption budget, 1024 characters.
CAPTION_LIMIT == 1024
\* Line 150: the characters reserved for formatting.
FORMATTING_RESERVE == 20
\* Line 159: the characters one word is taken to have.
CHARS_PER_WORD == 5
\* Line 149: len(BRANDING_MESSAGE), the footer of line 34.
branding_length == 48
\* The characters of BRANDING_MESSAGE that escape_markdown escapes: its "!".
branding_specials == 1

\* A title is kept as its length and the number of its characters that
\* escape_markdown escapes.
\* Lines 150 and 159: max_caption_length // 5, the word cap of the summary.
max_words_of(title) ==
  (CAPTION_LIMIT - title.len - branding_length - FORMATTING_RESERVE)
    \div CHARS_PER_WORD

\* len(caption) for the caption of lines 154-158:
\* "*" title "*" "\n\n" summary "\n\n" footer, each part escaped.
caption_len(title, summary) ==
  1 + (title.len + title.esc) + 1 + 2 + escaped_len(summary) + 2
    + (branding_length + branding_specials)

\* The titles explored: a short one, those that leave a word cap of 0 to
\* MaxWords, and one a character longer than the budget (word cap -1); each
\* without and with one escaped character.
Titles ==
  { [len |-> n, esc |-> e] :
      n \in {ShortTitle} \cup
            { CAPTION_LIMIT - branding_length - FORMATTING_RESERVE
                - CHARS_PER_WORD * c : c \in 0..MaxWords } \cup
            { CAPTION_LIMIT - branding_length - FORMATTING_RESERVE + 1 },
      e \in {0, 1} }

\* The words of the short summaries: a plain word, a word ending a sentence,
\* and a token with a period inside (a decimal number, a domain name).
Words == { << "x", "x" >>, << "x", "." >>, << "x", ".", "x" >> }

\* The summaries explored: every text of at most MaxWords words, and one
\* long text of LongWords plain words of WordLen characters.
Summaries ==
  UNION { [1..n -> Words] : n \in 0..MaxWords } \cup
  { [i \in 1..LongWords |-> [j \in 1..WordLen |-> "x"]] }

\* The title and summary standing for an entry's in the poll-loop
\* specifications; SpecCaption explores Titles and Summaries.
PlainTitle == [len |-> ShortTitle, esc |-> 0]
PlainSummary == << << "x", "x" >>, << "x", "." >> >>

\* ------------------------------------------------------------------ state
NoGuid == "-"
NoTime == 0 - 1

VARIABLES
  pc,                  \* position of the fetch_and_post coroutine
  sinceAttempt,        \* seconds slept since the latest send attempt
  sinceTerminal,       \* seconds slept since the latest terminal outcome
  sinceAudible,        \* seconds slept since the latest audible delivery
  cycle,               \* fetch cycles started
  processed_articles,  \* the dedup ledger (line 37)
  feedIdx,             \* index of feed_url in RSS_FEEDS (line 193)
  entries,             \* feed.entries of the feed being processed
  entryIdx,            \* index of entry in entries (line 208)
  media_url,           \* line 219 (a local of one iteration)
  article,             \* the dict of lines 229-234, with the entry's guid
  retries,             \* post_to_telegram's parameter
  retry_after,         \* line 176
  admitted,            \* history: times each guid passed line 214
  resolved,            \* history: times each guid's content was resolved
  calls,               \* history: top-level post_to_telegram calls per guid
  disposition,         \* history: how the processing of each guid ended
  lastAttempt,         \* history: the latest send attempt of the call in progress
  sent,                \* history: the call's first and latest captions sent
  resolution,          \* history: the extractors' answers and the latest result
  fetched              \* history: the feeds parsed in this cycle (line 199)

vars == << pc, sinceAttempt, sinceTerminal, sinceAudible, cycle,
           processed_articles, feedIdx, entries, entryIdx, media_url, article,
           retries, retry_after, admitted, resolved, calls, disposition,
           lastAttempt, sent, resolution, fetched >>

ages == << sinceAttempt, sinceTerminal, sinceAudible >>

postVars == << article, retries, retry_after >>
sendHist == << calls, lastAttempt, sent >>

NoArticle == [guid |-> NoGuid, media_url |-> "",
              title |-> [len |-> 0, esc |-> 0], summary |-> << >>]
NoAttempt == [guid |-> NoGuid, retries |-> 0, method |-> "-", result |-> "-",
              retry_after |-> 0, silent |-> FALSE, prevAudible |-> NoTime]

\* Ages stop growing at one idle period.
Horizon == CHECK_INTERVAL

\* An age after asyncio.sleep(dt); NoTime (the event never happened) stays.
elapsed(age, dt) ==
  IF age = NoTime THEN NoTime
  ELSE IF age + dt > Horizon THEN Horizon ELSE age + dt

\* asyncio.sleep(dt): every age grows by dt.
Sleep(dt) ==
  /\ sinceAttempt' = elapsed(sinceAttempt, dt)
  /\ sinceTerminal' = elapsed(sinceTerminal, dt)
  /\ sinceAudible' = elapsed(sinceAudible, dt)

Init ==
  /\ pc = "cycle"
  /\ sinceAttempt = NoTime
  /\ sinceTerminal = NoTime
  /\ sinceAudible = NoTime
  /\ cycle = 0
  /\ processed_articles = {}
  /\ feedIdx = 1
  /\ entries = << >>
  /\ entryIdx = 1
  /\ media_url = ""
  /\ article = NoArticle
  /\ retries = 0
  /\ retry_after = 0
  /\ admitted = [g \in Guids |-> 0]
  /\ resolved = [g \in Guids |-> 0]
  /\ calls = [g \in Guids |-> 0]
  /\ disposition = [g \in Guids |-> "new"]
  /\ lastAttempt = NoAttempt
  /\ sent = << >>
  /\ resolution = << >>
  /\ fetched = {}

\* ------------------------------------------------------------ dedup ledger
\* Mutant of seen: the membership test is lost, every entry looks new.
seen_never(g, ledger) == FALSE

\* `guid in processed_articles'   (line 210)
seen(g, ledger) == g \in ledger

\* Mutant of mark: the ledger keeps the latest identifier only.
mark_latest_only(g, ledger) == {g}

\* Mutant of mark: the ledger is not written when the entry is admitted.
mark_noop(g, ledger) == ledger

\* processed_articles.add(guid)   (line 214)
mark(g, ledger) == ledger \cup {g}

\* Mutant of on_empty_content: the skipped entry is taken out of the ledger.
on_empty_content_unmark(g, ledger) == ledger \ {g}

\* Lines 221-223: an entry skipped for empty content leaves the ledger as
\* line 214 set it.
on_empty_content(g, ledger) == ledger

\* ---------------------------------------------------------------- poll loop
\* Mutant of after_feed_error: the handler is outside the feed loop, an
\* error ends the cycle.
after_feed_error_abort(i) == Len(RSS_FEEDS) + 1

\* Lines 239-240: the except clause is inside `for feed_url in RSS_FEEDS',
\* so after an error in feed i the loop goes on with feed i + 1.
after_feed_error(i) == i + 1

\* Lines 190-192: a fetch cycle starts.
StartCycle ==
  /\ pc = "cycle"
  /\ cycle < MaxCycles
  /\ cycle' = cycle + 1
  /\ feedIdx' = 1
  /\ pc' = "feed"
  /\ UNCHANGED << ages, processed_articles, entries, entryIdx, media_url, postVars, admitted, resolved, disposition,
                  sendHist >>
  /\ fetched' = {}
  /\ UNCHANGED resolution

\* Lines 193-206: the next feed is parsed.  feedparser.parse raises (the
\* handler at line 239 moves on to the next feed), or it returns a listing;
\* an empty listing is skipped by the continue at line 204.
FetchFeed ==
  /\ pc = "feed"
  /\ feedIdx <= Len(RSS_FEEDS)
  /\ \/ /\ feedIdx' = after_feed_error(feedIdx)
        /\ UNCHANGED << pc, entries, entryIdx >>
     \/ \E l \in Listings :
          /\ entries' = l
          /\ IF l = << >>
               THEN /\ feedIdx' = feedIdx + 1
                    /\ UNCHANGED << pc, entryIdx >>
               ELSE /\ entryIdx' = 1
                    /\ pc' = "entry"
                    /\ UNCHANGED feedIdx
  /\ UNCHANGED << ages, cycle, processed_articles, media_url,
                  postVars, admitted, resolved, disposition, sendHist >>
  /\ fetched' = fetched \cup {feedIdx}
  /\ UNCHANGED resolution

\* Line 193 exhausted: every feed of RSS_FEEDS has been visited.
EndFeeds ==
  /\ pc = "feed"
  /\ feedIdx > Len(RSS_FEEDS)
  /\ pc' = "idle"
  /\ UNCHANGED << ages, cycle, processed_articles, feedIdx, entries, entryIdx,
                  media_url, postVars, admitted, resolved,
                  disposition, sendHist >>
  /\ UNCHANGED << resolution, fetched >>

\* Lines 243-244: asyncio.sleep(CHECK_INTERVAL), then the while loop repeats.
IdleSleep ==
  /\ pc = "idle"
  /\ Sleep(CHECK_INTERVAL)
  /\ pc' = "cycle"
  /\ UNCHANGED << cycle, processed_articles, feedIdx, entries, entryIdx,
                  media_url, postVars, admitted, resolved,
                  disposition, sendHist >>
  /\ UNCHANGED << resolution, fetched >>

\* Lines 208-214: the next entry of the feed.  An entry whose guid is in the
\* ledger is skipped (line 212); any other is added to the ledger at once
\* (line 214), before its content is resolved.  The for loop running out of
\* entries returns to the feed loop.
NextEntry ==
  /\ pc = "entry"
  /\ IF entryIdx > Len(entries)
       THEN /\ feedIdx' = feedIdx + 1
            /\ pc' = "feed"
            /\ UNCHANGED << processed_articles, entryIdx, admitted >>
       ELSE LET g == guid_of(entries[entryIdx]) IN
            IF seen(g, processed_articles)
              THEN /\ entryIdx' = entryIdx + 1
                   /\ UNCHANGED << pc, feedIdx, processed_articles, admitted >>
              ELSE /\ processed_articles' = mark(g, processed_articles)
                   /\ admitted' = [admitted EXCEPT ![g] = @ + 1]
                   /\ pc' = "resolve"
                   /\ UNCHANGED << feedIdx, entryIdx >>
  /\ UNCHANGED << ages, cycle, entries, media_url, postVars,
                  resolved, disposition, sendHist >>
  /\ resolution' = << >>
  /\ UNCHANGED fetched

\* Lines 217-223: the content of the entry is resolved; empty content skips
\* the entry (continue at line 223).
ResolveContent ==
  /\ pc = "resolve"
  /\ \E primary \in ExtractorResults, fallback \in ExtractorResults :
       LET r == fetch_full_article_content(primary, fallback)
           g == guid_of(entries[entryIdx]) IN
       /\ resolved' = [resolved EXCEPT ![g] = @ + 1]
       /\ resolution' = << [primary |-> primary, fallback |-> fallback,
                            result |-> r] >>
       /\ IF r.full_content = ""
            THEN /\ disposition' = [disposition EXCEPT ![g] = "empty"]
                 /\ entryIdx' = entryIdx + 1
                 /\ pc' = "entry"
                 /\ media_url' = ""
                 /\ processed_articles' = on_empty_content(g, processed_articles)
            ELSE /\ pc' = "summarize"
                 /\ media_url' = r.media_url
                 /\ UNCHANGED << disposition, entryIdx, processed_articles >>
  /\ UNCHANGED << ages, cycle, feedIdx, entries, postVars, admitted, sendHist >>
  /\ UNCHANGED fetched

\* The locals of one iteration of the entry loop (media_url, article) and of
\* one call of post_to_telegram (retries, retry_after) are assigned before
\* they are read (lines 146, 176, 219, 229); the model clears them when the
\* iteration ends.

\* Line 226 as written: summarize_content(full_content) lacks max_length and
\* raises TypeError; the except at line 239 logs it and the feed loop goes on
\* with the next feed, leaving the rest of this feed's entries.
SummarizeRaises ==
  /\ pc = "summarize"
  /\ disposition' = [disposition EXCEPT ![guid_of(entries[entryIdx])] = "raised"]
  /\ feedIdx' = after_feed_error(feedIdx)
  /\ pc' = "feed"
  /\ media_url' = ""
  /\ UNCHANGED << ages, cycle, processed_articles, entries, entryIdx,
                  postVars, admitted, resolved, sendHist >>
  /\ resolution' = << >>
  /\ UNCHANGED fetched

Next ==
  \/ StartCycle
  \/ FetchFeed
  \/ EndFeeds
  \/ IdleSleep
  \/ NextEntry
  \/ ResolveContent
  \/ SummarizeRaises

Spec == Init /\ [][Next]_vars

\* ------------------------------------------------------ delivery (sink side)
\* What the sink answers to one send_photo / send_message call: success, a
\* flood-control error RetryAfter carrying retry_after seconds, another
\* TelegramError, or any other exception raised inside the try block.
SinkResponses ==
  [kind : {"ok", "TelegramError", "Exception"}, retry_after : {0}] \cup
  [kind : {"RetryAfter"}, retry_after : 1..MaxRetryAfter]

\* Mutant of except_clause: the ceiling test reads retries <= MAX_RETRIES.
except_clause_one_more(kind, r) ==
  CASE kind = "ok" -> "Sent"
    [] kind = "RetryAfter" /\ r <= MAX_RETRIES -> "retry"
    [] kind = "RetryAfter" -> "ExhaustedRetries"
    [] kind = "TelegramError" -> "PermanentError"
    [] OTHER -> "UnexpectedError"

\* Mutant of except_clause: the ceiling test reads retries < MAX_RETRIES - 1.
except_clause_one_less(kind, r) ==
  CASE kind = "ok" -> "Sent"
    [] kind = "RetryAfter" /\ r < MAX_RETRIES - 1 -> "retry"
    [] kind = "RetryAfter" -> "ExhaustedRetries"
    [] kind = "TelegramError" -> "PermanentError"
    [] OTHER -> "UnexpectedError"

\* Mutant of except_clause: every TelegramError is retried like RetryAfter.
except_clause_retry_all(kind, r) ==
  CASE kind = "ok" -> "Sent"
    [] kind \in {"RetryAfter", "TelegramError"} /\ r < MAX_RETRIES -> "retry"
    [] kind = "RetryAfter" -> "ExhaustedRetries"
    [] kind = "TelegramError" -> "PermanentError"
    [] OTHER -> "UnexpectedError"

\* The branch of post_to_telegram's try/except that one send attempt ends in
\* (lines 173-185): "retry" is lines 176-179, every other value a return.
except_clause(kind, r) ==
  CASE kind = "ok" -> "Sent"
    [] kind = "RetryAfter" /\ r < MAX_RETRIES -> "retry"
    [] kind = "RetryAfter" -> "ExhaustedRetries"
    [] kind = "TelegramError" -> "PermanentError"
    [] OTHER -> "UnexpectedError"

\* The level each return of post_to_telegram is logged at (lines 173, 181,
\* 183, 185): logger.info for a post, logger.error for every failure.
log_level(outcome) == IF outcome = "Sent" THEN "info" ELSE "error"

\* Mutant of flood_wait: a fixed backoff instead of the sink's duration.
flood_wait_fixed(d) == 1

\* retry_after = int(e.retry_after); asyncio.sleep(retry_after)
\* (lines 176-178).  RetryAfter.retry_after is a whole number of seconds, on
\* which int() changes nothing.
flood_wait(d) == d

\* The audibility cooldown of the specification (its example value, seconds);
\* the source defines none.
Cooldown == 60

\* Mutant of disable_notification: the cooldown policy of the specification.
disable_notification_cooldown(audibleAge) ==
  audibleAge # NoTime /\ audibleAge < Cooldown

\* Lines 161-172: neither send_photo nor send_message is given
\* disable_notification, so every message is sent audible, whatever the time
\* since the latest audible delivery.
disable_notification(audibleAge) == FALSE

\* Mutant of inter_post_delay: the pacing delay follows a post only.
inter_post_delay_sent_only(outcome) == IF outcome = "Sent" THEN POST_DELAY ELSE 0

\* asyncio.sleep(POST_DELAY) at line 238 follows every return of
\* post_to_telegram, whatever its outcome.
inter_post_delay(outcome) == POST_DELAY

\* Mutant of send_method: a retry drops the photo and sends text only.
send_method_text_on_retry(media, r) ==
  IF media # "" /\ r = 0 THEN "send_photo" ELSE "send_message"

\* Lines 160-172: `if article["media_url"]' picks send_photo with the
\* caption, else send_message with the same text; the choice is the same on
\* every attempt of the call, and no except clause sends anything.
send_method(media, r) ==
  IF media # "" THEN "send_photo" ELSE "send_message"

TerminalOutcomes == {"Sent", "ExhaustedRetries", "PermanentError", "UnexpectedError"}

\* Mutant of article_entry: the article is built from the last entry of the
\* listing instead of the entry of this iteration.
article_entry_last(es, i) == es[Len(es)]

\* Lines 208-234: the article is built from `entry', the entry of this
\* iteration of `for entry in feed.entries'.
article_entry(es, i) == es[i]

\* Line 226 returning a summary (summarize_content given both arguments),
\* then lines 229-237: the article is assembled and post_to_telegram is
\* called with retries=0.
SummarizeReturns ==
  /\ pc = "summarize"
  /\ LET g == guid_of(article_entry(entries, entryIdx)) IN
       /\ article' = [guid |-> g, media_url |-> media_url,
                       title |-> PlainTitle, summary |-> PlainSummary]
       /\ calls' = [calls EXCEPT ![g] = @ + 1]
  /\ retries' = 0
  /\ pc' = "send"
  /\ UNCHANGED << ages, cycle, processed_articles, feedIdx, entries, entryIdx,
                  media_url, retry_after, admitted, resolved,
                  disposition, lastAttempt, sent >>
  /\ resolution' = << >>
  /\ UNCHANGED fetched

\* Lines 148-185: one send attempt and the except clause it ends in.  The
\* summary is truncated to the word cap and stored back into the article
\* (line 159) before the caption is built from it (lines 154-158).
SendAttempt ==
  /\ pc = "send"
  /\ \E resp \in SinkResponses :
       LET branch == except_clause(resp.kind, retries)
           quiet == disable_notification(sinceAudible)
           summary == truncate_to_sentence(article.summary,
                                           max_words_of(article.title)) IN
       /\ article' = [article EXCEPT !.summary = summary]
       /\ sent' = (IF sent = << >> THEN << >> ELSE << sent[1] >>) \o
                    << [content |-> article.summary,
                        max_words |-> max_words_of(article.title),
                        summary |-> summary,
                        media_url |-> article.media_url,
                        len |-> caption_len(article.title, summary)] >>
       /\ lastAttempt' =
            [guid |-> article.guid, retries |-> retries,
             method |-> send_method(article.media_url, retries),
             result |-> resp.kind, retry_after |-> resp.retry_after,
             silent |-> quiet, prevAudible |-> sinceAudible]
       /\ sinceAttempt' = 0
       /\ sinceAudible' = IF resp.kind = "ok" /\ ~quiet THEN 0 ELSE sinceAudible
       /\ IF branch = "retry"
            THEN /\ retry_after' = flood_wait(resp.retry_after)
                 /\ pc' = "flood_sleep"
                 /\ UNCHANGED << disposition, sinceTerminal >>
            ELSE /\ disposition' = [disposition EXCEPT ![article.guid] = branch]
                 /\ sinceTerminal' = 0
                 /\ pc' = "post_delay"
                 /\ UNCHANGED retry_after
  /\ UNCHANGED << cycle, processed_articles, feedIdx, entries, entryIdx,
                  media_url, retries, admitted, resolved, calls >>
  /\ UNCHANGED << resolution, fetched >>

\* Mutant of next_retries: the recursive call passes retries unchanged.
next_retries_same(r) == r

\* Line 179: the recursive call is given retries + 1.
next_retries(r) == r + 1

\* Lines 178-179: asyncio.sleep(retry_after), then the recursive call with
\* retries + 1.
FloodSleep ==
  /\ pc = "flood_sleep"
  /\ Sleep(retry_after)
  /\ retries' = next_retries(retries)
  /\ pc' = "send"
  /\ UNCHANGED << cycle, processed_articles, feedIdx, entries, entryIdx,
                  media_url, article, retry_after, admitted, resolved,
                  disposition, sendHist >>
  /\ UNCHANGED << resolution, fetched >>

\* Line 238: asyncio.sleep(POST_DELAY) after post_to_telegram has returned,
\* then the for loop takes the next entry.
PostDelay ==
  /\ pc = "post_delay"
  /\ sinceTerminal' = elapsed(sinceTerminal, inter_post_delay(disposition[article.guid]))
  /\ sinceAudible' = elapsed(sinceAudible, inter_post_delay(disposition[article.guid]))
  /\ sinceAttempt' = NoTime
  /\ entryIdx' = entryIdx + 1
  /\ pc' = "entry"
  /\ media_url' = ""
  /\ article' = NoArticle
  /\ retries' = 0
  /\ retry_after' = 0
  /\ lastAttempt' = NoAttempt
  /\ sent' = << >>
  /\ UNCHANGED << cycle, processed_articles, feedIdx, entries, admitted,
                  resolved, disposition, calls >>
  /\ UNCHANGED << resolution, fetched >>

NextDeliver ==
  \/ Next
  \/ SummarizeReturns
  \/ SendAttempt
  \/ FloodSleep
  \/ PostDelay

SpecDeliver == Init /\ [][NextDeliver]_vars

\* ---------------------------------------------------- the loop, for ever
\* Lines 190-192 once MaxCycles cycles have been counted: `while True'
\* starts another cycle; the counter stays at MaxCycles.
StartCycleAgain ==
  /\ pc = "cycle"
  /\ cycle = MaxCycles
  /\ feedIdx' = 1
  /\ pc' = "feed"
  /\ fetched' = {}
  /\ UNCHANGED << ages, cycle, processed_articles, entries, entryIdx,
                  media_url, postVars, admitted, resolved, disposition,
                  sendHist, resolution >>

NextForever ==
  \/ NextDeliver
  \/ StartCycleAgain

\* The coroutine fetch_and_post is the only task of the event loop besides
\* the Flask thread, and every await of it completes: a sleep ends after its
\* duration, a call to a collaborator returns or raises.  So a step that is
\* possible is eventually taken.
SpecForever == Init /\ [][NextForever]_vars /\ WF_vars(NextForever)

\* ------------------------------------------------- one call, every caption
\* post_to_telegram called (line 237) for one new entry, with the title and
\* the summary of the article drawn from Titles and Summaries.
InitCaption ==
  \E e \in Entries, m \in {"", "img"}, t \in Titles, s \in Summaries :
    LET g == guid_of(e) IN
    /\ pc = "send"
    /\ sinceAttempt = NoTime
    /\ sinceTerminal = NoTime
    /\ sinceAudible = NoTime
    /\ cycle = 1
    /\ processed_articles = {g}
    /\ feedIdx = 1
    /\ entries = << e >>
    /\ entryIdx = 1
    /\ media_url = m
    /\ article = [guid |-> g, media_url |-> m, title |-> t, summary |-> s]
    /\ retries = 0
    /\ retry_after = 0
    /\ admitted = [h \in Guids |-> IF h = g THEN 1 ELSE 0]
    /\ resolved = [h \in Guids |-> IF h = g THEN 1 ELSE 0]
    /\ calls = [h \in Guids |-> IF h = g THEN 1 ELSE 0]
    /\ disposition = [h \in Guids |-> "new"]
    /\ lastAttempt = NoAttempt
    /\ sent = << >>
    /\ resolution = << >>
    /\ fetched = {1}

\* The attempts of the call, until it returns.
NextCaption ==
  \/ SendAttempt
  \/ FloodSleep

SpecCaption == InitCaption /\ [][NextCaption]_vars

\* ------------------------------------------------------------------ claims
\* The entry at the head of the first listing of a later cycle: nothing has
\* been processed in this cycle yet, so whatever happened to g happened in an
\* earlier one, and the feed lists it again.
ListedAgain(g) ==
  /\ cycle >= 2
  /\ pc = "entry"
  /\ feedIdx = 1
  /\ entryIdx = 1
  /\ Len(entries) >= 1
  /\ guid_of(entries[1]) = g

\* C1: across poll cycles with overlapping listings, each entry identifier
\* (id, else link) is handed to post_to_telegram (a top-level call with
\* retries=0) at most once, and only after passing the ledger test once.
NoDuplicateDelivery ==
  \A g \in Guids : calls[g] <= 1 /\ calls[g] <= admitted[g]

\* C1 witness: an identifier delivered in an earlier cycle is listed again.
NoDuplicateDeliveryWitness ==
  \E g \in Guids : ListedAgain(g) /\ calls[g] = 1 /\ disposition[g] = "Sent"

\* C2: a send attempt rejected with RetryAfter(d) below the ceiling is
\* followed by a suspension of exactly d seconds, the duration the sink
\* gave; no send attempt is made meanwhile, and the next send attempt is the
\* retry of the same notification, made d seconds after the rejection.
FloodWaitHonoured ==
  /\ (lastAttempt.result = "RetryAfter" /\ lastAttempt.retries < MAX_RETRIES)
       => pc \in {"flood_sleep", "send"}
  /\ pc = "flood_sleep"
       => /\ lastAttempt.result = "RetryAfter"
          /\ lastAttempt.guid = article.guid
          /\ lastAttempt.retries = retries
          /\ retry_after = lastAttempt.retry_after
          /\ sinceAttempt = 0
  /\ (pc = "send" /\ retries > 0)
       => /\ lastAttempt.result = "RetryAfter"
          /\ lastAttempt.guid = article.guid
          /\ lastAttempt.retries = retries - 1
          /\ sinceAttempt = lastAttempt.retry_after

\* C2 witness: a retry about to be made after a suspension of more than 1 s.
FloodWaitHonouredWitness ==
  /\ pc = "send"
  /\ retries > 0
  /\ lastAttempt.retry_after > 1
  /\ sinceAttempt = lastAttempt.retry_after

\* C3: one call makes at most MAX_RETRIES retries; a sink that rejects every
\* attempt with RetryAfter ends the delivery in ExhaustedRetries at the
\* attempt with retries = MAX_RETRIES; that outcome is logged at error level
\* (unlike Sent) and the notification is dropped: no later send attempt or
\* call is made for it.
RetryCeiling ==
  /\ retries <= MAX_RETRIES
  /\ lastAttempt.retries <= MAX_RETRIES
  /\ (lastAttempt.result = "RetryAfter" /\ lastAttempt.retries >= MAX_RETRIES)
       => /\ pc = "post_delay"
          /\ disposition[lastAttempt.guid] = "ExhaustedRetries"
  /\ \A g \in Guids :
       disposition[g] = "ExhaustedRetries"
         => /\ log_level(disposition[g]) = "error"
            /\ log_level(disposition[g]) # log_level("Sent")
            /\ calls[g] = 1
            /\ (pc \in {"send", "flood_sleep"} => article.guid # g)

\* C3 witness: a notification dropped at the ceiling is listed again in a
\* later cycle.
RetryCeilingWitness ==
  \E g \in Guids : ListedAgain(g) /\ disposition[g] = "ExhaustedRetries"

\* C4: a notification whose first k attempts are rejected with RetryAfter,
\* 1 <= k <= MAX_RETRIES, and whose next attempt is accepted ends in Sent:
\* the attempt after k rejections is always made (ExhaustedRetries arises
\* only from a rejection of the attempt with retries = MAX_RETRIES), and an
\* accepted attempt ends the delivery in Sent.
FloodThenSent ==
  /\ lastAttempt.result = "ok"
       => /\ pc = "post_delay"
          /\ disposition[lastAttempt.guid] = "Sent"
  /\ (pc = "post_delay" /\ disposition[article.guid] = "ExhaustedRetries")
       => /\ lastAttempt.result = "RetryAfter"
          /\ lastAttempt.retries = MAX_RETRIES
  /\ lastAttempt.result = "RetryAfter"
       => \/ lastAttempt.retries = MAX_RETRIES
          \/ pc \in {"flood_sleep", "send"}

\* C4 witness: accepted after MAX_RETRIES rejections.
FloodThenSentWitness ==
  /\ lastAttempt.result = "ok"
  /\ lastAttempt.retries = MAX_RETRIES
  /\ disposition[lastAttempt.guid] = "Sent"

\* C5: a send attempt that fails with a TelegramError other than RetryAfter
\* ends the delivery in PermanentError; no further send attempt or call is
\* made for that notification, in this cycle or a later one, and its
\* identifier is in the ledger.
PermanentErrorFinal ==
  /\ lastAttempt.result = "TelegramError"
       => /\ pc = "post_delay"
          /\ disposition[lastAttempt.guid] = "PermanentError"
  /\ \A g \in Guids :
       disposition[g] = "PermanentError"
         => /\ g \in processed_articles
            /\ calls[g] = 1
            /\ admitted[g] = 1
            /\ (pc \in {"send", "flood_sleep"} => article.guid # g)

\* C5 witness: a notification that failed permanently is listed again in a
\* later cycle.
PermanentErrorFinalWitness ==
  \E g \in Guids : ListedAgain(g) /\ disposition[g] = "PermanentError"

\* C6 (as claimed): an identifier enters the ledger only after the delivery
\* of its entry has reached a terminal outcome, so every identifier in the
\* ledger belongs to an entry whose delivery already terminated.
LedgerAfterTerminal ==
  \A g \in processed_articles : disposition[g] \in TerminalOutcomes

\* The identifier of the entry the loop is working on, if any.
InFlight(g) ==
  /\ pc \in {"resolve", "summarize", "send", "flood_sleep", "post_delay"}
  /\ guid_of(entries[entryIdx]) = g

\* C6 (amended): the identifier enters the ledger when the entry is first
\* met (line 214), before its content is resolved and before any delivery:
\* every entry whose resolution or delivery is in flight or has ended, in
\* any way, is in the ledger, and no entry passes the ledger test twice, so
\* an entry abandoned in flight is not retried in a later cycle.
LedgerBeforeProcessing ==
  \A g \in Guids :
    /\ (InFlight(g) \/ resolved[g] > 0 \/ calls[g] > 0 \/ disposition[g] # "new")
         => g \in processed_articles
    /\ admitted[g] <= 1
    /\ resolved[g] <= admitted[g]

\* C6 witness: a delivery in flight, no outcome yet, its identifier already
\* in the ledger.
LedgerBeforeProcessingWitness ==
  /\ pc = "flood_sleep"
  /\ disposition[article.guid] = "new"
  /\ article.guid \in processed_articles

\* C7 (as claimed): an entry skipped for empty content is not in the ledger
\* afterwards.
EmptySkipNotMarked ==
  \A g \in Guids : disposition[g] = "empty" => g \notin processed_articles

\* C7 (amended): an entry whose resolved content is empty is skipped without
\* any send attempt and its identifier IS in the ledger afterwards, so the
\* entry is not resolved again in a later cycle that still lists it.
EmptySkipMarked ==
  \A g \in Guids :
    disposition[g] = "empty"
      => /\ g \in processed_articles
         /\ calls[g] = 0
         /\ resolved[g] = 1
         /\ ~InFlight(g)

\* C7 witness: an entry skipped for empty content is listed again in a later
\* cycle.
EmptySkipMarkedWitness ==
  \E g \in Guids : ListedAgain(g) /\ disposition[g] = "empty"

\* C8 (as claimed): a failure while one entry is processed does not keep the
\* later entries of the feed from being processed in the same cycle: when
\* the loop has left a feed, every entry the feed listed is in the ledger
\* (it was processed now or had been seen before).
EntryFailureIsolated ==
  pc \in {"feed", "idle", "cycle"}
    => \A i \in 1..Len(entries) : guid_of(entries[i]) \in processed_articles

\* C9: after every terminal outcome of a delivery the loop sleeps POST_DELAY
\* before anything else: whenever it is past that sleep, and in particular
\* at the first send attempt of the next notification, at least POST_DELAY
\* has passed since the latest terminal outcome, whatever that outcome was
\* and whatever flood-control waits preceded it.
PacingAfterTerminal ==
  /\ pc = "post_delay" => sinceTerminal = 0
  /\ (pc # "post_delay" /\ sinceTerminal # NoTime)
       => sinceTerminal >= POST_DELAY

\* C9 witness: the first send attempt of the next notification, POST_DELAY
\* after a delivery that ended at the retry ceiling.
PacingAfterTerminalWitness ==
  /\ pc = "send"
  /\ retries = 0
  /\ sinceTerminal = POST_DELAY
  /\ \E g \in Guids : disposition[g] = "ExhaustedRetries"

\* C10 (as claimed): a delivery attempted less than the cooldown after the
\* latest audible delivery is sent silent.
AudibilityCooldown ==
  (/\ lastAttempt.prevAudible # NoTime
   /\ lastAttempt.prevAudible < Cooldown)
    => lastAttempt.silent

\* C10 (amended): there is no audibility cooldown: every send attempt is
\* audible, also one made less than the cooldown after the latest audible
\* delivery; the time of the latest audible delivery is the time of the
\* latest accepted send attempt and changes on no other event.
AlwaysAudible ==
  /\ ~lastAttempt.silent
  /\ lastAttempt.result = "ok" => sinceAudible = 0
  /\ (pc = "post_delay" /\ lastAttempt.result # "ok")
       => sinceAudible = lastAttempt.prevAudible
  /\ sinceAudible # NoTime
       => sinceTerminal # NoTime /\ sinceAudible >= sinceTerminal
  /\ (\A g \in Guids : disposition[g] # "Sent") <=> sinceAudible = NoTime

\* C10 witness: an accepted, audible send attempt less than the cooldown
\* after the previous audible delivery.
AlwaysAudibleWitness ==
  /\ lastAttempt.result = "ok"
  /\ ~lastAttempt.silent
  /\ lastAttempt.prevAudible # NoTime
  /\ lastAttempt.prevAudible < Cooldown

\* C11 (as claimed): a delivery with a media URL whose send was rejected by
\* the sink with an error other than flood control has ended on a text-only
\* fallback send of the same caption.
MediaFallback ==
  (pc = "post_delay" /\ article.media_url # ""
     /\ lastAttempt.result = "TelegramError")
    => lastAttempt.method = "send_message"

\* C11 (amended): a notification with a media URL is sent with send_photo on
\* every attempt; when the sink rejects a send_photo with a TelegramError
\* other than flood control, the call ends there as a permanent error and no
\* text-only send is made for the notification.
NoMediaFallback ==
  /\ (lastAttempt # NoAttempt /\ article.media_url # "")
       => lastAttempt.method = "send_photo"
  /\ (lastAttempt.method = "send_photo" /\ lastAttempt.result = "TelegramError")
       => /\ pc = "post_delay"
          /\ disposition[lastAttempt.guid] = "PermanentError"
          /\ calls[lastAttempt.guid] = 1

\* C11 witness: a send_photo retried after flood control was rejected with a
\* TelegramError and the call has returned.
NoMediaFallbackWitness ==
  /\ pc = "post_delay"
  /\ lastAttempt.method = "send_photo"
  /\ lastAttempt.result = "TelegramError"
  /\ lastAttempt.retries = 1

\* C12 (as claimed): the caption of every send attempt that carries a
\* photo, title, summary and footer as assembled and escaped, is at most
\* 1024 characters long.
CaptionFits ==
  \A i \in 1..Len(sent) :
    sent[i].media_url # "" => sent[i].len <= CAPTION_LIMIT

\* A word that ends with a period: the end of a sentence.
EndsSentence(w) == Len(w) > 0 /\ w[Len(w)] = "."

\* C13 (as claimed): truncating a text of more than max_words words gives
\* whole words of the text only, never part of a token, at most max_words
\* of them; the result ends with a word that ends a sentence, and is the
\* plain first max_words words only when none of those ends a sentence.
SentenceSafe ==
  \A i \in 1..Len(sent) :
    LET content == sent[i].content
        max_words == sent[i].max_words
        result == sent[i].summary IN
    (max_words >= 0 /\ Len(content) > max_words)
      => /\ \E k \in 0..max_words : result = SubSeq(content, 1, k)
         /\ \/ result # << >> /\ EndsSentence(result[Len(result)])
            \/ /\ result = SubSeq(content, 1, max_words)
               /\ \A j \in 1..max_words : ~EndsSentence(content[j])

\* C14 (as claimed): when the primary extractor fails or returns empty text
\* and the next strategy works and has text, the resolved content is not
\* empty.
FallbackOnFailureOrEmpty ==
  \A i \in 1..Len(resolution) :
    LET r == resolution[i] IN
    ((r.primary.raises \/ r.primary.text = "")
       /\ ~r.fallback.raises /\ r.fallback.text # "")
      => r.result.full_content # ""

\* C14 (amended): there are two strategies; the HTML fallback is tried
\* exactly when the primary raises.  A primary that returns gives the
\* result, empty text included; a raising primary with a returning fallback
\* gives the fallback's text and image; both raising gives empty content.
\* Empty content skips the entry, any other goes on to the summary.
FallbackOnRaiseOnly ==
  \A i \in 1..Len(resolution) :
    LET r == resolution[i] IN
    /\ r.result.fallback_tried = r.primary.raises
    /\ ~r.primary.raises
         => /\ r.result.full_content = r.primary.text
            /\ r.result.media_url = r.primary.image
    /\ (r.primary.raises /\ ~r.fallback.raises)
         => /\ r.result.full_content = r.fallback.text
            /\ r.result.media_url = r.fallback.image
    /\ (r.primary.raises /\ r.fallback.raises)
         => r.result.full_content = ""
    /\ pc = (IF r.result.full_content = "" THEN "entry" ELSE "summarize")

\* C14 witness: the primary returned empty text, the fallback would have
\* returned a body, and the entry was skipped for empty content.
FallbackOnRaiseOnlyWitness ==
  /\ pc = "entry"
  /\ resolution # << >>
  /\ ~resolution[1].primary.raises
  /\ resolution[1].primary.text = ""
  /\ ~resolution[1].fallback.raises
  /\ resolution[1].fallback.text = "body"
  /\ resolution[1].result.full_content = ""
  /\ ~resolution[1].result.fallback_tried

\* C15: an identifier is not in the ledger before it is first marked; from
\* its first mark on it is in the ledger in every later state, whatever
\* else is marked and however its processing ends; marking an identifier
\* that is in the ledger leaves the ledger as it is.
LedgerMonotone ==
  \A g \in Guids :
    /\ admitted[g] = 0 => ~seen(g, processed_articles)
    /\ admitted[g] > 0 => seen(g, processed_articles)
    /\ seen(g, processed_articles)
         => mark(g, processed_articles) = processed_articles

\* C15 witness: an identifier marked in an earlier cycle is listed again
\* and is in the ledger, while another identifier was marked after it.
LedgerMonotoneWitness ==
  \E g \in Guids, h \in Guids :
    /\ g # h
    /\ ListedAgain(g)
    /\ admitted[g] = 1
    /\ admitted[h] = 1
    /\ disposition[g] = "empty"
    /\ processed_articles = {g, h}

\* C16 (as claimed): an entry that was not in the ledger and whose resolved
\* content is not empty reaches delivery in the same cycle: once its
\* processing has ended, post_to_telegram has been called for it.
NonEmptyReachesDelivery ==
  \A g \in Guids :
    (resolved[g] > 0 /\ disposition[g] \notin {"new", "empty"})
      => calls[g] >= 1

\* C17: an error while one feed is fetched or processed does not end the
\* cycle: when the cycle reaches its idle sleep every feed of RSS_FEEDS has
\* been fetched in it, those after a failing feed included, and while the
\* feed loop runs the feeds before the current one have all been fetched.
FeedFailureIsolated ==
  /\ pc = "idle" => fetched = 1..Len(RSS_FEEDS)
  /\ pc = "feed" => fetched = 1..(feedIdx - 1)

\* C17 witness: in the first cycle the processing of the first feed raised,
\* a later feed was still fetched and its processing raised too, and the
\* cycle has reached its idle sleep.
FeedFailureIsolatedWitness ==
  /\ cycle = 1
  /\ pc = "idle"
  /\ Len(RSS_FEEDS) >= 2
  /\ fetched = 1..Len(RSS_FEEDS)
  /\ \A g \in Guids : disposition[g] = "raised"

\* The positions of the coroutine inside a fetch cycle (lines 193-240).
Fetching ==
  pc \in {"feed", "entry", "resolve", "summarize", "send", "flood_sleep",
          "post_delay"}

\* C18: the poll loop never stops: every fetch cycle, whatever the feeds,
\* the extractors, the summarizer and the sink answer (a sink rejecting
\* every attempt with flood control included), runs to its end and reaches
\* the idle sleep, and every idle sleep is followed by a new fetch cycle.
\* Stated on the steps: the idle sleep (line 244) is completed again and
\* again, so no state is the last; the idle sleep is entered only from the
\* end of the feed loop and left only into the next fetch cycle, so one
\* whole fetch cycle lies between two idle sleeps.
PollLoopForever ==
  /\ []<><<IdleSleep>>_vars
  /\ [][/\ pc' = "idle" => pc \in {"idle", "feed"}
        /\ pc = "idle" => pc' \in {"idle", "cycle"}
        /\ pc = "cycle" => (pc' \in {"cycle", "feed"} /\ Fetching')]_vars

\* C18 witness: a new fetch cycle has started after a cycle in which the
\* sink rejected every attempt of a delivery with flood control.
PollLoopForeverWitness ==
  /\ cycle >= 2
  /\ pc = "feed"
  /\ feedIdx = 1
  /\ \E g \in Guids : disposition[g] = "ExhaustedRetries"

\* The identifiers whose delivery has started and not reached a terminal
\* outcome.
InDelivery ==
  { g \in Guids : calls[g] > 0 /\ disposition[g] \notin TerminalOutcomes }

\* C19: deliveries are strictly sequential.  At most one notification is in
\* delivery, the article of the entry the loop is at; while it is, the loop
\* does not move on, so no send attempt is made for another entry before
\* the terminal outcome.  Every earlier entry of the listing has been
\* finished (delivered, skipped or failed) before the current one is
\* handled, and the feeds are taken in the order of RSS_FEEDS.
SequentialDelivery ==
  /\ InDelivery = (IF pc \in {"send", "flood_sleep"} THEN {article.guid} ELSE {})
  /\ pc \in {"send", "flood_sleep", "post_delay"}
       => /\ article.guid = guid_of(entries[entryIdx])
          /\ lastAttempt.guid \in {NoGuid, article.guid}
  /\ pc \in {"entry", "resolve", "summarize", "send", "flood_sleep", "post_delay"}
       => /\ fetched = 1..feedIdx
          /\ \A i \in 1..(entryIdx - 1) :
               i <= Len(entries) => disposition[guid_of(entries[i])] # "new"

\* C19 witness: the first send attempt for the second entry of a listing is
\* about to be made, after the delivery of the first entry reached a
\* terminal outcome.
SequentialDeliveryWitness ==
  /\ pc = "send"
  /\ retries = 0
  /\ lastAttempt = NoAttempt
  /\ entryIdx = 2
  /\ calls[guid_of(entries[1])] = 1
  /\ disposition[guid_of(entries[1])] \in TerminalOutcomes
  /\ article.guid = guid_of(entries[2])
  /\ article.guid # guid_of(entries[1])

\* C20 (as claimed): every send attempt of one call carries the same caption
\* and the same media URL: the latest attempt sends what the first sent.
SameCaptionEveryAttempt ==
  Len(sent) = 2
    => /\ sent[2].summary = sent[1].summary
       /\ sent[2].len = sent[1].len
       /\ sent[2].media_url = sent[1].media_url

=============================================================================
